---------------------------- MODULE Spec2Model ----------------------------
(***************************************************************************)
(* The clinic receptionist: the per-phone conversation state machine of    *)
(* app/agent/clinic_agent.py, the slot calendar and booking tool of        *)
(* app/agent/tools.py and the appointment and patient tables of            *)
(* app/database/models.py.                                                 *)
(*                                                                         *)
(* Dates are day numbers, a time of day is the pair <<hour, minute>>, an   *)
(* optional value is a sequence of length 0 or 1, and a Python dict is a   *)
(* function whose DOMAIN is the set of keys present.                       *)
(***************************************************************************)
EXTENDS Integers, Sequences, FiniteSets, TLC

VARIABLES
    conversation_states,  \* clinic_agent.py:19, phone -> [messages, context]
    patients,             \* rows of table "patients", in id order
    appointments,         \* rows of table "appointments", in id order
    today,                \* date.today() / datetime.now().date()
    last,                 \* what the most recent handler call did and replied
    calls,                \* book_appointment invocations in progress
    writer,               \* holder of the database write lock (open transaction with a flushed row)
    ext,                  \* extract_patient_info applied to a drawn context
    cal,                  \* get_available_slots called for a drawn date
    script,               \* test_demo.py: the messages already sent
    parsed,               \* the time conversion applied to a drawn match
    turns,                \* chat requests being handled, by where they came from
    reminders             \* main.py:41, the reminder loop and the reminders it sent

vars == <<conversation_states, patients, appointments, today, last, calls, writer, ext,
          cal, script, parsed, turns, reminders>>

---------------------------------------------------------------------------
\* Bounds of the model.

\* Rows the appointment table may hold while parties converse.
MaxAppts == 2

\* Rows the appointment table may hold while book_appointment is called.
MaxBookings == 3

\* Rows of the appointment table the slot calendar is asked about.
MaxRows == 2

\* Messages of a history that are counted; generate_response only asks
\* whether there are at most two.
HistCap == 3

\* Program constants.
CLINIC_START_HOUR == 10
CLINIC_END_HOUR == 20
SLOT_DURATION_MINUTES == 30

---------------------------------------------------------------------------
\* Utterances. Each pattern of the source is given by its result on the
\* utterances below (the results of Python's re / str methods on these texts).

\* The demo conversation of test_demo.py:30-39, and an urgent message.
DialogueUtterances ==
    { "Hello", "I'm not feeling well", "Ahmed Khan", "35", "0300-1234567",
      "Fever and headache for 3 days", "Tomorrow", "2:30 PM", "chest pain" }

\* What two parties need to book, each for themselves (the "3" of the third
\* text is taken as the age once the name is known).
BookingUtterances ==
    { "Ahmed Khan", "0300-1234567", "Fever and headache for 3 days",
      "Tomorrow", "2:30 PM" }

\* One message that gives name, age, phone, reason and date together.
Introduction == "I am Sara Ali, 28 years old, 0311-7654321, fever, tomorrow"

Utterances ==
    DialogueUtterances \cup
    { "Fever and headache", "today", "my name is Sara Ali",
      "I am 35 years old", "0311-7654321", "tomorrow not today", "later",
      "I am fine", Introduction }

\* any(keyword in text.lower() for keyword in URGENCY_KEYWORDS)
is_urgent(text) == text \in {"chest pain"}

\* re.search(r'(\d{1,3})\s*(?:years?|saal|sal|old)', message_lower)
AgeMatch(message) ==
    CASE message = "I am 35 years old" -> <<35>>
      [] message = Introduction -> <<28>>
      [] OTHER -> <<>>

\* re.search(r'\b(\d{1,3})\b', message)
NumMatch(message) ==
    CASE message = "35" -> <<35>>
      [] message = "I am 35 years old" -> <<35>>
      [] message = "Fever and headache for 3 days" -> <<3>>
      [] message = "2:30 PM" -> <<2>>
      [] message = Introduction -> <<28>>
      [] OTHER -> <<>>

\* re.search(r'03\d{2}[- ]?\d{7}', message), separators stripped
PhoneMatch(message) ==
    CASE message = "0300-1234567" -> <<"03001234567">>
      [] message = "0311-7654321" -> <<"03117654321">>
      [] message = Introduction -> <<"03117654321">>
      [] OTHER -> <<>>

\* the first of name_patterns that matches (re.IGNORECASE), title-cased
NamePatternMatch(message) ==
    CASE message = "Ahmed Khan" -> <<"Ahmed Khan">>
      [] message = "my name is Sara Ali" -> <<"Sara Ali">>
      [] message = Introduction -> <<"Sara Ali">>
      [] message = "Fever and headache" -> <<"Fever And Headache">>
      [] message = "tomorrow not today" -> <<"Tomorrow Not Today">>
      [] message = "chest pain" -> <<"Chest Pain">>
      [] message = "I am fine" -> <<"Fine">>
      [] OTHER -> <<>>

\* 2 to 4 words, no digit, no question word: the words capitalized
NameFallback(message) ==
    CASE message = "Ahmed Khan" -> <<"Ahmed Khan">>
      [] message = "I'm not feeling well" -> <<"I'm Not Feeling Well">>
      [] message = "Fever and headache" -> <<"Fever And Headache">>
      [] message = "tomorrow not today" -> <<"Tomorrow Not Today">>
      [] message = "chest pain" -> <<"Chest Pain">>
      [] message = "I am fine" -> <<"I Am Fine">>
      [] OTHER -> <<>>

\* any(keyword in message_lower for keyword in symptom_keywords)
HasSymptom(message) ==
    message \in {"Fever and headache", "Fever and headache for 3 days", "chest pain",
                 Introduction}

\* 'tomorrow' in message_lower or 'kal' in message_lower
SaysTomorrow(message) == message \in {"Tomorrow", "tomorrow not today", Introduction}

\* 'today' in message_lower or 'aaj' in message_lower
SaysToday(message) == message \in {"today", "tomorrow not today"}

\* any(word in message.lower() for word in ['hello', 'hi', ...])
SaysHello(message) == message \in {"Hello"}

\* the sentiment buckets of the small-talk stage
Sentiment(message) ==
    CASE message \in {"I am fine"} -> "positive"
      [] message \in {"chest pain"} -> "negative"
      [] OTHER -> "neutral"

\* re.search(time_patterns[0], message): <<hour, minute, meridiem>>, with
\* minute -1 and meridiem "" for a group that did not take part
TimeMatch(message) ==
    CASE message = "2:30 PM" -> << <<2, 30, "pm">> >>
      [] message = "35" -> << <<35, -1, "">> >>
      [] message = "I am 35 years old" -> << <<35, -1, "">> >>
      [] message = "0300-1234567" -> << <<3, 0, "">> >>
      [] message = "0311-7654321" -> << <<3, 11, "">> >>
      [] message = "Fever and headache for 3 days" -> << <<3, -1, "">> >>
      [] message = Introduction -> << <<28, -1, "">> >>
      [] OTHER -> <<>>

---------------------------------------------------------------------------
\* Python dicts.

EmptyDict == <<>>

Has(d, k) == k \in DOMAIN d

Put(d, k, v) == [x \in DOMAIN d \cup {k} |-> IF x = k THEN v ELSE d[x]]

Get(d, k, default) == IF k \in DOMAIN d THEN d[k] ELSE default

Min(a, b) == IF a <= b THEN a ELSE b

---------------------------------------------------------------------------
\* The field extractor (clinic_agent.py:82-137). now is datetime.now().date().

ExtractAge(message, context) ==
    IF AgeMatch(message) # <<>> /\ ~Has(context, "age")
    THEN Put(context, "age", AgeMatch(message)[1])
    ELSE IF ~Has(context, "age") /\ Has(context, "name")
              /\ NumMatch(message) # <<>>
              /\ 1 <= NumMatch(message)[1] /\ NumMatch(message)[1] <= 120
         THEN Put(context, "age", NumMatch(message)[1])
         ELSE context

ExtractPhone(message, context) ==
    IF PhoneMatch(message) # <<>> /\ ~Has(context, "phone")
    THEN Put(context, "phone", PhoneMatch(message)[1])
    ELSE context

\* lines 105-125 without the test of line 105
ExtractNameOverwrites(message, context) ==
    IF NamePatternMatch(message) # <<>>
    THEN Put(context, "name", NamePatternMatch(message)[1])
    ELSE IF NameFallback(message) # <<>>
         THEN Put(context, "name", NameFallback(message)[1])
         ELSE context

ExtractName(message, context) ==
    IF Has(context, "name") THEN context
    ELSE IF NamePatternMatch(message) # <<>>
         THEN Put(context, "name", NamePatternMatch(message)[1])
         ELSE IF NameFallback(message) # <<>>
              THEN Put(context, "name", NameFallback(message)[1])
              ELSE context

ExtractReason(message, context) ==
    IF HasSymptom(message) /\ ~Has(context, "reason")
    THEN Put(context, "reason", message)
    ELSE context

\* lines 133-137 with the day counted from the date already in the context
ExtractDateRelative(message, context, now) ==
    IF SaysTomorrow(message)
    THEN Put(context, "date", Get(context, "date", now) + 1)
    ELSE IF SaysToday(message) THEN Put(context, "date", Get(context, "date", now))
         ELSE context

ExtractDate(message, context, now) ==
    IF SaysTomorrow(message) THEN Put(context, "date", now + 1)
    ELSE IF SaysToday(message) THEN Put(context, "date", now)
         ELSE context

extract_patient_info(message, context, now) ==
    ExtractDate(message,
        ExtractReason(message,
            ExtractName(message,
                ExtractPhone(message,
                    ExtractAge(message, context)))),
        now)

---------------------------------------------------------------------------
\* The slot calendar (tools.py:25-92). read tells whether the appointment
\* table was queried (lines 66-71).

\* lines 31-38, the loop, for a closing hour and a slot duration
RECURSIVE SlotsOf(_, _, _, _)
SlotsOf(current_hour, current_minute, end_hour, duration) ==
    IF current_hour < end_hour
    THEN <<  <<current_hour, current_minute>>  >> \o
         ( IF current_minute + duration >= 60
           THEN SlotsOf(current_hour + 1, 0, end_hour, duration)
           ELSE SlotsOf(current_hour, current_minute + duration, end_hour, duration) )
    ELSE <<>>

SlotsFrom(current_hour, current_minute) ==
    SlotsOf(current_hour, current_minute, CLINIC_END_HOUR, SLOT_DURATION_MINUTES)

generate_time_slots == SlotsFrom(CLINIC_START_HOUR, 0)

ActiveStatuses == {"pending", "confirmed"}

\* lines 62-83 without the test of lines 58-60
GetAvailableSlotsAnyDate(appointment_date, rows, now) ==
    LET booked_times ==
            { rows[i].time : i \in { j \in DOMAIN rows :
                  /\ rows[j].date = appointment_date
                  /\ rows[j].status \in ActiveStatuses } }
        Free(slot) == slot \notin booked_times
        available == SelectSeq(generate_time_slots, Free)
    IN  IF available = <<>>
        THEN [kind |-> "no_slots", slots |-> <<>>, read |-> TRUE]
        ELSE [kind |-> "slots", slots |-> available, read |-> TRUE]

get_available_slots(appointment_date, rows, now) ==
    IF appointment_date < now
    THEN [kind |-> "past_date", slots |-> <<>>, read |-> FALSE]
    ELSE LET booked_times ==
                 { rows[i].time : i \in { j \in DOMAIN rows :
                       /\ rows[j].date = appointment_date
                       /\ rows[j].status \in ActiveStatuses } }
             Free(slot) == slot \notin booked_times
             available == SelectSeq(generate_time_slots, Free)
         IN  IF available = <<>>
             THEN [kind |-> "no_slots", slots |-> <<>>, read |-> TRUE]
             ELSE [kind |-> "slots", slots |-> available, read |-> TRUE]

---------------------------------------------------------------------------
\* Replies. kind names the template; slots carries the calendar's answer and
\* result the booking outcome where the template has one.

Reply(kind) == [kind |-> kind, slots |-> <<>>, result |-> ""]

SlotsReply(slots_result) ==
    [kind |-> slots_result.kind, slots |-> slots_result.slots, result |-> ""]

GoodbyeReply(booking_result) ==
    [kind |-> "goodbye", slots |-> <<>>, result |-> booking_result]

NoEffect(context, reply) ==
    [context |-> context, reply |-> reply, selected |-> <<>>, queried |-> FALSE,
     patients |-> patients, appointments |-> appointments, booked |-> 0,
     notified |-> <<>>, reset |-> FALSE, fault |-> "none"]

---------------------------------------------------------------------------
\* generate_response (clinic_agent.py:140-311).

\* lines 180-190 without the test of lines 186-187
NeededSkipsReason(context) ==
    SelectSeq(<<"name", "age", "phone", "date">>,
              LAMBDA f : ~Has(context, f))

\* lines 180-190 with the tests in the opposite order
NeededLastFirst(context) ==
    SelectSeq(<<"date", "reason", "phone", "age", "name">>,
              LAMBDA f : ~Has(context, f))

\* lines 180-190: the fields still needed, in asking order
Needed(context) ==
    SelectSeq(<<"name", "age", "phone", "reason", "date">>,
              LAMBDA f : ~Has(context, f))

\* lines 196-205
AskFor(next_field) == Reply("ask_" \o next_field)

\* lines 230-235 with 12 added to every hour of the afternoon
TimeStrNoonPlusTwelve(match) ==
    IF match[3] = "pm"
    THEN <<match[1] + 12, IF match[2] >= 0 THEN match[2] ELSE 0>>
    ELSE IF match[3] = "am" /\ match[1] = 12
         THEN <<0, IF match[2] >= 0 THEN match[2] ELSE 0>>
         ELSE <<match[1], IF match[2] >= 0 THEN match[2] ELSE 0>>

\* lines 225-235 without the conversion of lines 230-233
TimeStrIgnoresMeridiem(match) ==
    <<match[1], IF match[2] >= 0 THEN match[2] ELSE 0>>

\* lines 230-235: the 24-hour time string, as <<hour, minute>>
TimeStr(match) ==
    LET hour == match[1]
        minute == IF match[2] >= 0 THEN match[2] ELSE 0
        meridiem == match[3]
    IN  IF meridiem = "pm" /\ hour < 12 THEN <<hour + 12, minute>>
        ELSE IF meridiem = "am" /\ hour = 12 THEN <<0, minute>>
             ELSE <<hour, minute>>

\* datetime.strptime(time_str, "%H:%M") accepts the string
ValidTime(time_str) ==
    /\ 0 <= time_str[1] /\ time_str[1] <= 23
    /\ 0 <= time_str[2] /\ time_str[2] <= 59

\* the patient query finding nobody
FindPatientNobody(rows, phone) == 0

\* db.query(Patient).filter(Patient.phone == phone).first(): the row's id, or 0
FindPatient(rows, phone) ==
    IF \E i \in DOMAIN rows : rows[i].phone = phone
    THEN CHOOSE i \in DOMAIN rows :
             /\ rows[i].phone = phone
             /\ \A j \in DOMAIN rows : rows[j].phone = phone => i <= j
    ELSE 0

\* the row without status="confirmed": the column's default applies
\* (models.py:41)
NewAppointmentDefaultStatus(id, patient_id, date, time, reason) ==
    [id |-> id, patient_id |-> patient_id, date |-> date, time |-> time,
     reason |-> reason, status |-> "pending", reminder_sent |-> <<>>]

\* clinic_agent.py:259-265 and tools.py:144-150
NewAppointment(id, patient_id, date, time, reason) ==
    [id |-> id, patient_id |-> patient_id, date |-> date, time |-> time,
     reason |-> reason, status |-> "confirmed", reminder_sent |-> <<>>]

\* lines 285-292 with the session's identifier given as the patient's phone
NotificationSessionPhone(phone, context, time_str) ==
    [name |-> Get(context, "name", "Unknown"),
     phone |-> phone,
     age |-> Get(context, "age", 0),
     date |-> context["date"],
     time |-> time_str,
     reason |-> Get(context, "reason", "General consultation")]

\* lines 285-292: the payload handed to send_doctor_notification
Notification(phone, context, time_str) ==
    [name |-> Get(context, "name", "Unknown"),
     phone |-> Get(context, "phone", phone),
     age |-> Get(context, "age", 0),
     date |-> context["date"],
     time |-> time_str,
     reason |-> Get(context, "reason", "General consultation")]

\* lines 314-367 without the handler of lines 365-367: a failed dispatch
\* raises to the caller
SendDoctorNotificationRaises(payload, fault) ==
    [called |-> <<payload>>, raised |-> fault = "notify"]

\* lines 314-367, send_doctor_notification: the message is built and
\* handed to the WhatsApp client; fault = "notify" is the client failing,
\* which is logged at line 366 and goes no further
send_doctor_notification(payload, fault) ==
    [called |-> <<payload>>, raised |-> FALSE]

\* lines 224-304: a time was matched; book, notify, say goodbye, reset.
\* fault = "commit": the database refuses the insert or the commit, which
\* the handler of line 280 catches like the ValueError of strptime.
SelectTime(phone, context, match, fault) ==
    LET time_str == TimeStr(match)
        ctx == Put(context, "time", time_str)
        the_phone == Get(ctx, "phone", phone)
        found == FindPatient(patients, the_phone)
        patient_rows ==
            IF found # 0 THEN patients
            ELSE Append(patients,
                        [id |-> Len(patients) + 1,
                         name |-> Get(ctx, "name", "Unknown"),
                         phone |-> the_phone,
                         age |-> Get(ctx, "age", 0)])
        patient_id == IF found # 0 THEN found ELSE Len(patients) + 1
        appointment ==
            NewAppointment(Len(appointments) + 1, patient_id, ctx["date"],
                           time_str, Get(ctx, "reason", "General consultation"))
        ok == ValidTime(time_str) /\ fault # "commit"
        sent == send_doctor_notification(Notification(phone, ctx, time_str), fault)
    IN  [context |-> ctx,
         reply |-> IF sent.raised THEN Reply("apology")
                   ELSE GoodbyeReply(IF ok THEN "confirmed" ELSE "error"),
         selected |-> << [date |-> ctx["date"], time |-> time_str] >>,
         queried |-> FALSE,
         patients |-> IF ok THEN patient_rows ELSE patients,
         appointments |-> IF ok THEN Append(appointments, appointment)
                          ELSE appointments,
         booked |-> IF ok THEN Len(appointments) + 1 ELSE 0,
         notified |-> sent.called,
         reset |-> ~sent.raised,
         fault |-> IF ValidTime(time_str) /\ fault = "commit" THEN "commit"
                   ELSE IF fault = "notify" THEN "notify"
                   ELSE "none"]

\* lines 213-311: stage 4 and the two closing replies
TimeSelection(phone, context, message, fault) ==
    IF TimeMatch(message) # <<>> /\ ~Has(context, "time")
    THEN SelectTime(phone, context, TimeMatch(message)[1], fault)
    ELSE IF Get(context, "shown_slots", FALSE) /\ ~Has(context, "time")
         THEN NoEffect(context, Reply("ask_time"))
         ELSE NoEffect(context, Reply("default"))

\* lines 207-211
ShowSlots(context) ==
    LET slots_result == get_available_slots(context["date"], appointments, today)
    IN  [NoEffect(Put(context, "shown_slots", TRUE), SlotsReply(slots_result))
            EXCEPT !.queried = TRUE]

\* line 208, with context.get('shown_slots') taken the wrong way round
SlotsDueInverted(context) ==
    /\ Has(context, "date") /\ ~Has(context, "time")
    /\ Get(context, "shown_slots", FALSE)

\* line 208
SlotsDue(context) ==
    /\ Has(context, "date") /\ ~Has(context, "time")
    /\ ~Get(context, "shown_slots", FALSE)

\* line 147, with the greeting also given to a party in stage booking
InGreetingOrBooking(conversation_stage, history_len) ==
    conversation_stage \in {"greeting", "booking"} \/ history_len <= 2

\* line 147
InGreeting(conversation_stage, history_len) ==
    conversation_stage = "greeting" \/ history_len <= 2

\* lines 148-155
Greeting(context, message) ==
    NoEffect(Put(context, "stage", "small_talk"),
             IF SaysHello(message) THEN Reply("welcome_hello")
             ELSE Reply("welcome"))

\* lines 158-175, asking for the age when the name is already known
SmallTalkSkipsKnownName(context, message) ==
    NoEffect(Put(context, "stage", "booking"),
             IF Has(context, "name") THEN Reply("ask_age")
             ELSE Reply("small_talk_" \o Sentiment(message)))

\* lines 158-175: every small-talk reply ends with the request for the name
SmallTalk(context, message) ==
    NoEffect(Put(context, "stage", "booking"),
             Reply("small_talk_" \o Sentiment(message)))

generate_response(phone, context, message, history_len, fault) ==
    LET conversation_stage == Get(context, "stage", "greeting")
    IN  IF InGreeting(conversation_stage, history_len)
        THEN Greeting(context, message)
        ELSE IF conversation_stage = "small_talk"
        THEN SmallTalk(context, message)
        ELSE IF conversation_stage = "booking" /\ Needed(context) # <<>>
        THEN NoEffect(context, AskFor(Needed(context)[1]))
        ELSE IF conversation_stage = "booking" /\ SlotsDue(context)
        THEN ShowSlots(context)
        ELSE TimeSelection(phone, context, message, fault)

---------------------------------------------------------------------------
\* chat_with_agent (clinic_agent.py:32-79).

FreshState == [messages |-> 0, context |-> EmptyDict]

\* lines 22-29
get_conversation_state(phone) ==
    IF phone \in DOMAIN conversation_states
    THEN conversation_states[phone]
    ELSE FreshState

\* state["messages"].append(...): the length, counted up to HistCap
Appended(n) == Min(n + 1, HistCap)

NoCaller == "none"

UrgentReply == Reply("urgent")

\* line 79
ApologyReply == Reply("apology")

\* Where a turn can be made to fail. The first three are exceptions that
\* reach the handler of lines 77-79: raised once the utterance is in the
\* history (line 48), once the fields are extracted (lines 63-64), and on
\* entry to generate_response (line 67). "commit" is the database failing
\* under the inline booking (lines 247-267), "notify" the WhatsApp client
\* failing under send_doctor_notification (lines 360-361).
InternalFaults == {"recorded", "extracted", "responding"}

Faults == {"none", "commit", "notify"} \cup InternalFaults

\* The handler's record of one call: who sent what, what the call did, and
\* the fault that struck it.
Did(op, id, msg, urgent, reply, selected, queried, booked, notified, fault) ==
    [op |-> op, id |-> id, msg |-> msg, urgent |-> urgent, reply |-> reply,
     selected |-> selected, queried |-> queried, booked |-> booked,
     notified |-> notified, fault |-> fault]

\* lines 51-57, with the symptom test of lines 127-130 applied to the
\* urgent utterance
UrgentTurnKeepsReason(state, message, history_len) ==
    [messages |-> Appended(history_len),
     context |-> ExtractReason(message, state.context)]

\* lines 51-57, with the extraction of lines 60-64 run before the urgency check
UrgentTurnExtracts(state, message, history_len) ==
    [messages |-> Appended(history_len),
     context |-> extract_patient_info(message, state.context, today)]

\* lines 51-57: the urgent branch stores the reply in the history and returns
UrgentTurn(state, message, history_len) ==
    [state EXCEPT !.messages = Appended(history_len)]

\* lines 302 and 70, with the session kept as it is after a booking
AfterResponseKeepsSession(r, history_len) ==
    [messages |-> Appended(history_len), context |-> r.context]

\* lines 302 and 70: what conversation_states holds for the phone once
\* generate_response has returned
AfterResponse(r, history_len) ==
    IF r.reset THEN FreshState
    ELSE [messages |-> Appended(history_len), context |-> r.context]

\* lines 25 and 302 with the dict replaced instead of the phone's entry
StoreAlone(phone, state) == Put(EmptyDict, phone, state)

\* lines 25 and 302, conversation_states[phone] = ..., and the in-place
\* changes of the entry that get_conversation_state returned
Store(phone, state) == Put(conversation_states, phone, state)

\* lines 77-79: the exception is logged and the apology returned; what the
\* turn had already written to the state stays
Failed(phone, message, state, fault) ==
    /\ conversation_states' = Store(phone, state)
    /\ last' = Did("chat", phone, message, FALSE, ApologyReply,
                   <<>>, FALSE, 0, <<>>, fault)
    /\ UNCHANGED <<patients, appointments>>

chat_with_agent(phone, message, fault) ==
    LET state == get_conversation_state(phone)
        history_len == Appended(state.messages)
    IN  IF fault = "recorded"
        THEN Failed(phone, message, [state EXCEPT !.messages = history_len], fault)
        ELSE IF is_urgent(message)
        THEN /\ conversation_states' =
                    Store(phone, UrgentTurn(state, message, history_len))
             /\ last' = Did("chat", phone, message, TRUE, UrgentReply,
                            <<>>, FALSE, 0, <<>>, "none")
             /\ UNCHANGED <<patients, appointments>>
        ELSE LET context == extract_patient_info(message, state.context, today)
                 r == generate_response(phone, context, message, history_len, fault)
             IN  IF fault \in {"extracted", "responding"}
                 THEN Failed(phone, message,
                             [messages |-> history_len, context |-> context], fault)
                 ELSE /\ Len(r.appointments) <= MaxAppts
                      /\ r.appointments # appointments => writer = NoCaller
                      /\ conversation_states' =
                             Store(phone, AfterResponse(r, history_len))
                      /\ patients' = r.patients
                      /\ appointments' = r.appointments
                      /\ last' = Did("chat", phone, message, FALSE, r.reply,
                                     r.selected, r.queried, r.booked, r.notified,
                                     r.fault)

---------------------------------------------------------------------------
\* The conversation on its own: parties send utterances, one turn at a time.

Parties == {"p1", "p2"}

NoCall ==
    [pc |-> "idle", name |-> "", phone |-> "", age |-> 0, date |-> 0,
     time |-> <<>>, reason |-> "", patient_id |-> 0, pending |-> <<>>,
     outcome |-> ""]

NoExt == [pc |-> "off"]

NoCal == [pc |-> "off"]

NoParse == [pc |-> "off"]

NoReminders == [pc |-> "off"]

\* The places a chat request comes from: the endpoint of routes.py:149 and
\* the message loop of handler.py:74.
Sources == {"endpoint", "listener"}

NoTurn == [pc |-> "idle", phone |-> "", message |-> ""]

NoTurns == [src \in Sources |-> NoTurn]

NoLast == Did("none", "", "", FALSE, Reply("none"), <<>>, FALSE, 0, <<>>, "none")

Callers == {"c1", "c2"}

Init ==
    /\ conversation_states = EmptyDict
    /\ patients = <<>>
    /\ appointments = <<>>
    /\ today = 0
    /\ last = NoLast
    /\ calls = [c \in Callers |-> NoCall]
    /\ writer = NoCaller
    /\ ext = NoExt
    /\ cal = NoCal
    /\ script = 0
    /\ parsed = NoParse
    /\ turns = NoTurns
    /\ reminders = NoReminders

Turn(phone, message) ==
    /\ chat_with_agent(phone, message, "none")
    /\ UNCHANGED <<today, calls, writer, ext, cal, script, parsed, turns,
                   reminders>>

Next == \E phone \in Parties, message \in BookingUtterances : Turn(phone, message)

Spec == Init /\ [][Next]_vars

\* One party and the whole demo vocabulary.
NextCycle == \E message \in DialogueUtterances : Turn("p1", message)

SpecCycle == Init /\ [][NextCycle]_vars

---------------------------------------------------------------------------
\* Properties of the conversation.

Active(a) == a.status \in ActiveStatuses

ContextOf(phone) == get_conversation_state(phone).context

\* The step is a turn of party phone.
TurnOf(phone) == last'.op = "chat" /\ last'.id = phone /\ vars' # vars

\* C1: for every date and time at most one pending or confirmed appointment
\* exists, whatever turns the parties have taken.
C1_NoDoubleBooking ==
    \A i, j \in DOMAIN appointments :
        ( /\ i # j
          /\ Active(appointments[i]) /\ Active(appointments[j])
          /\ appointments[i].date = appointments[j].date )
        => appointments[i].time # appointments[j].time

\* Another pending or confirmed appointment than row `except` holds (date, time).
HeldByAnother(date, time, except) ==
    \E i \in DOMAIN appointments :
        /\ i # except
        /\ Active(appointments[i])
        /\ appointments[i].date = date
        /\ appointments[i].time = time

\* C3: a turn that selects a time already held by a pending or confirmed
\* appointment for the context's date commits nothing, does not confirm, and
\* offers the slots again.
C3_ConflictReoffersSlots ==
    ( /\ last.op = "chat"
      /\ last.selected # <<>>
      /\ HeldByAnother(last.selected[1].date, last.selected[1].time, last.booked) )
    => ( /\ last.booked = 0
         /\ last.reply.result # "confirmed"
         /\ last.reply.kind = "slots" )

\* C5: an urgent turn replies with the emergency advisory and leaves the
\* party's context empty.
C5_UrgentClearsContext ==
    ( last.op = "chat" /\ last.urgent )
    => ( /\ last.reply = UrgentReply
         /\ ContextOf(last.id) = EmptyDict )

\* C6: an urgent turn leaves the context (fields and stage) as it was,
\* computes no slot list, creates no appointment or patient and notifies
\* nobody.
C6_UrgentBypasses ==
    [][ \A phone \in Parties :
          ( TurnOf(phone) /\ is_urgent(last'.msg) )
          => ( /\ ContextOf(phone)' = ContextOf(phone)
               /\ appointments' = appointments
               /\ patients' = patients
               /\ ~last'.queried
               /\ last'.selected = <<>>
               /\ last'.booked = 0
               /\ last'.notified = <<>>
               /\ last'.reply = UrgentReply ) ]_vars

C6_Witness ==
    /\ last.op = "chat" /\ last.urgent
    /\ ContextOf(last.id) # EmptyDict
    /\ Get(ContextOf(last.id), "stage", "greeting") = "booking"
    /\ ~Has(ContextOf(last.id), "name")
    /\ ~Has(ContextOf(last.id), "reason")

\* C7: a turn that starts with shown_slots false sets no time and commits
\* no appointment, whatever the utterance, the stage and the fields.
C7_NoTimeBeforeSlots ==
    [][ \A phone \in Parties :
          ( TurnOf(phone) /\ ~Get(ContextOf(phone), "shown_slots", FALSE) )
          => ( /\ last'.selected = <<>>
               /\ last'.booked = 0
               /\ appointments' = appointments
               /\ ~Has(ContextOf(phone)', "time") ) ]_vars

\* "2:30 PM" just arrived in a cycle whose slots were never shown; all five
\* fields were already there, so the reply was the slot list.
C7_Witness ==
    /\ last.op = "chat" /\ last.msg = "2:30 PM"
    /\ TimeMatch(last.msg) # <<>>
    /\ last.queried
    /\ last.selected = <<>>
    /\ Get(ContextOf(last.id), "stage", "greeting") = "booking"

\* C8: a name once in the context keeps its value while the context lasts.
C8_NameKept ==
    [][ \A phone \in Parties :
          ( Has(ContextOf(phone), "name") /\ Has(ContextOf(phone)', "name") )
          => ContextOf(phone)'["name"] = ContextOf(phone)["name"] ]_vars

\* "Ahmed Khan" arrived after another text had been taken as the name.
C8_Witness ==
    /\ last.op = "chat" /\ last.msg = "Ahmed Khan"
    /\ Has(ContextOf(last.id), "name")
    /\ ContextOf(last.id)["name"] # "Ahmed Khan"

StageOf(phone) == Get(ContextOf(phone), "stage", "greeting")

\* C25: a turn after the slots were shown whose utterance gives no valid
\* time of day (no digits, or an hour or minute out of range) asks for the
\* time again: nothing is committed, nobody is notified, and the fields and
\* shown_slots stay in the context.
C25_InvalidTimeReprompts ==
    [][ \A phone \in Parties :
          ( /\ TurnOf(phone) /\ ~is_urgent(last'.msg)
            /\ Get(ContextOf(phone), "shown_slots", FALSE)
            /\ \/ TimeMatch(last'.msg) = <<>>
               \/ ~ValidTime(TimeStr(TimeMatch(last'.msg)[1])) )
          => ( /\ last'.reply = Reply("ask_time")
               /\ appointments' = appointments
               /\ last'.notified = <<>>
               /\ \A f \in {"name", "age", "phone", "reason", "date", "shown_slots"} :
                      Has(ContextOf(phone)', f) ) ]_vars

C16_EarlyStagesAdvance ==
    [][ \A phone \in Parties :
          ( TurnOf(phone) /\ ~is_urgent(last'.msg) ) =>
            /\ StageOf(phone) = "greeting" => StageOf(phone)' = "small_talk"
            /\ StageOf(phone) = "small_talk" =>
                   /\ StageOf(phone)' = "booking"
                   /\ last'.reply.kind \in
                          { "small_talk_positive", "small_talk_negative",
                            "small_talk_neutral" } ]_vars

\* The name was known when the small-talk turn asked for it.
C16_Witness ==
    /\ last.op = "chat" /\ last.reply.kind = "small_talk_neutral"
    /\ StageOf(last.id) = "booking"
    /\ Has(ContextOf(last.id), "name")
    /\ Has(ContextOf(last.id), "phone")

FirstMissing(context) ==
    IF ~Has(context, "name") THEN "name"
    ELSE IF ~Has(context, "age") THEN "age"
    ELSE IF ~Has(context, "phone") THEN "phone"
    ELSE IF ~Has(context, "reason") THEN "reason"
    ELSE IF ~Has(context, "date") THEN "date"
    ELSE "none"

\* C17: a turn in stage booking after whose extraction one of name, age,
\* phone, reason, date is missing asks for the first missing one in that
\* order, computes no slot list, does not set shown_slots and commits no
\* appointment.
C17_AsksFirstMissing ==
    [][ \A phone \in Parties :
          ( /\ TurnOf(phone) /\ ~is_urgent(last'.msg)
            /\ StageOf(phone) = "booking"
            /\ FirstMissing(extract_patient_info(last'.msg, ContextOf(phone), today))
                   # "none" )
          => ( /\ last'.reply =
                      Reply("ask_" \o FirstMissing(
                          extract_patient_info(last'.msg, ContextOf(phone), today)))
               /\ ~last'.queried
               /\ ~Has(ContextOf(phone)', "shown_slots")
               /\ last'.booked = 0
               /\ appointments' = appointments ) ]_vars

\* The date was given before the phone, and the phone was asked for.
C17_Witness ==
    /\ last.op = "chat" /\ last.reply.kind = "ask_phone"
    /\ Has(ContextOf(last.id), "date")
    /\ Has(ContextOf(last.id), "reason")

\* C20: the turn that commits an appointment calls the notification sink
\* once, with the name, age, phone and reason the session had collected and
\* the date, time and reason of the appointment committed.
C20_NotifiedOncePerCommit ==
    [][ \A phone \in Parties :
          ( TurnOf(phone) /\ last'.booked # 0 ) =>
            /\ Len(last'.notified) = 1
            /\ last'.notified[1].name = ContextOf(phone)["name"]
            /\ last'.notified[1].age = ContextOf(phone)["age"]
            /\ last'.notified[1].phone = ContextOf(phone)["phone"]
            /\ last'.notified[1].reason = ContextOf(phone)["reason"]
            /\ last'.notified[1].phone =
                   patients'[appointments'[last'.booked].patient_id].phone
            /\ last'.notified[1].date = appointments'[last'.booked].date
            /\ last'.notified[1].time = appointments'[last'.booked].time
            /\ last'.notified[1].reason = appointments'[last'.booked].reason ]_vars

\* A second booking was committed and notified.
C20_Witness ==
    /\ last.op = "chat" /\ last.booked = 2
    /\ Len(last.notified) = 1
    /\ last.notified[1].time = appointments[2].time

---------------------------------------------------------------------------
\* chat_with_agent statement by statement, for requests that arrive from
\* the chat endpoint and from the message loop. Both run as coroutines of
\* one event loop (main.py:250, uvicorn.run of one process), and a
\* coroutine keeps the loop until it awaits.

\* every request handler runs on a thread of its own
LoopFreeAlways == TRUE

\* routes.py:150-158 and handler.py:87-89: process_message is called
\* without an await, so no other request starts before it has returned
LoopFree == \A src \in Sources : turns[src].pc = "idle"

\* clinic_agent.py:45-48
TurnBegin(src, phone, message) ==
    /\ turns[src].pc = "idle"
    /\ LoopFree
    /\ LET state == get_conversation_state(phone)
       IN  conversation_states' =
               Store(phone, [state EXCEPT !.messages = Appended(state.messages)])
    /\ turns' = [turns EXCEPT ![src] =
                    [pc |-> "recorded", phone |-> phone, message |-> message]]
    /\ UNCHANGED <<patients, appointments, today, last, calls, writer, ext, cal,
                   script, parsed,
                   reminders>>

\* clinic_agent.py:51-64
TurnExtract(src) ==
    /\ turns[src].pc = "recorded"
    /\ LET phone == turns[src].phone
           message == turns[src].message
           state == get_conversation_state(phone)
       IN  IF is_urgent(message)
           THEN /\ conversation_states' =
                       Store(phone, [state EXCEPT !.messages = Appended(state.messages)])
                /\ last' = Did("chat", phone, message, TRUE, UrgentReply,
                               <<>>, FALSE, 0, <<>>, "none")
                /\ turns' = [turns EXCEPT ![src] = NoTurn]
           ELSE /\ conversation_states' =
                       Store(phone,
                             [state EXCEPT !.context =
                                 extract_patient_info(message, state.context, today)])
                /\ turns' = [turns EXCEPT ![src].pc = "extracted"]
                /\ UNCHANGED last
    /\ UNCHANGED <<patients, appointments, today, calls, writer, ext, cal, script,
                   parsed,
                   reminders>>

\* clinic_agent.py:67-75
TurnRespond(src) ==
    /\ turns[src].pc = "extracted"
    /\ LET phone == turns[src].phone
           message == turns[src].message
           state == get_conversation_state(phone)
           r == generate_response(phone, state.context, message, state.messages,
                                  "none")
       IN  /\ Len(r.appointments) <= MaxAppts
           /\ conversation_states' = Store(phone, AfterResponse(r, state.messages))
           /\ patients' = r.patients
           /\ appointments' = r.appointments
           /\ last' = Did("chat", phone, message, FALSE, r.reply, r.selected,
                          r.queried, r.booked, r.notified, r.fault)
    /\ turns' = [turns EXCEPT ![src] = NoTurn]
    /\ UNCHANGED <<today, calls, writer, ext, cal, script, parsed,
                   reminders>>

LoopUtterances == {"Ahmed Khan", "chest pain"}

NextLoop ==
    \E src \in Sources :
        \/ \E phone \in Parties, message \in LoopUtterances :
               TurnBegin(src, phone, message)
        \/ TurnExtract(src)
        \/ TurnRespond(src)

SpecLoop == Init /\ [][NextLoop]_vars

---------------------------------------------------------------------------
\* Two parties who give their details in one message, change the day, pick
\* a time or report an emergency, with turns that may fail.

PairUtterances == {Introduction, "today", "2:30 PM", "chest pain"}

PairFaults == {"none", "extracted"}

FaultyTurn(phone, message, fault) ==
    /\ chat_with_agent(phone, message, fault)
    /\ UNCHANGED <<today, calls, writer, ext, cal, script, parsed, turns,
                   reminders>>

NextPair ==
    \E phone \in Parties, message \in PairUtterances, fault \in PairFaults :
        FaultyTurn(phone, message, fault)

SpecPair == Init /\ [][NextPair]_vars

\* C23: a turn of one identifier, be it normal, urgent, failing or booking,
\* leaves the stored session of every other identifier as it was.
C23_OtherSessionsUntouched ==
    [][ \A a, b \in Parties :
          ( a # b /\ TurnOf(a) ) =>
            /\ (b \in DOMAIN conversation_states') = (b \in DOMAIN conversation_states)
            /\ get_conversation_state(b)' = get_conversation_state(b) ]_vars

\* One party's booking was committed while the other was being asked.
C23_Witness ==
    /\ last.op = "chat" /\ last.booked # 0
    /\ \E b \in Parties \ {last.id} :
           /\ b \in DOMAIN conversation_states
           /\ Has(ContextOf(b), "shown_slots")

\* C26: while shown_slots is set and no time is selected, the date of the
\* context is the one the slot list was computed for: a turn that starts
\* and ends with shown_slots set leaves the date as it was.
C26_ShownDateCurrent ==
    [][ \A phone \in Parties :
          ( /\ Get(ContextOf(phone), "shown_slots", FALSE)
            /\ Get(ContextOf(phone)', "shown_slots", FALSE) )
          => ContextOf(phone)'["date"] = ContextOf(phone)["date"] ]_vars

---------------------------------------------------------------------------
\* The conversation with failures: any turn of the party may be struck by
\* one of the faults.

FaultUtterances == BookingUtterances \cup {"chest pain"}

NextFault ==
    \E message \in FaultUtterances, fault \in Faults :
        FaultyTurn("p1", message, fault)

SpecFault == Init /\ [][NextFault]_vars

\* C11: a turn that fails internally, wherever it fails, replies with the
\* apology and leaves the party's context as it was before the turn.
C11_FailedTurnAtomic ==
    [][ \A phone \in Parties :
          ( TurnOf(phone) /\ last'.fault \in InternalFaults )
          => ( /\ last'.reply = ApologyReply
               /\ ContextOf(phone)' = ContextOf(phone) ) ]_vars

\* C12: after a slot-selection turn whose commit failed the party has an
\* error reply, and name, age, phone, reason, date and shown_slots are
\* still in the context.
C12_CommitFailureKeepsFields ==
    ( last.op = "chat" /\ last.fault = "commit" )
    => ( /\ last.reply.result = "error"
         /\ \A f \in {"name", "age", "phone", "reason", "date", "shown_slots"} :
                Has(ContextOf(last.id), f) )

\* C21: when the dispatch of the staff notification fails in a turn that
\* has committed an appointment, the appointment is in the table as
\* committed, the reply is the confirmation and the session is reset.
C21_NotifyFailureHarmless ==
    [][ \A phone \in Parties :
          ( TurnOf(phone) /\ last'.fault = "notify" /\ last'.booked # 0 ) =>
            /\ last'.booked = Len(appointments) + 1
            /\ appointments' = Append(appointments, appointments'[last'.booked])
            /\ appointments'[last'.booked].status = "confirmed"
            /\ appointments'[last'.booked].time = last'.selected[1].time
            /\ last'.reply = GoodbyeReply("confirmed")
            /\ conversation_states'[phone] = [messages |-> 0, context |-> EmptyDict] ]_vars

\* The notification of a committed booking could not be delivered.
C21_Witness ==
    /\ last.op = "chat" /\ last.fault = "notify"
    /\ last.booked = Len(appointments) /\ last.booked # 0
    /\ Len(last.notified) = 1

StageRank(context) ==
    CASE Get(context, "stage", "greeting") = "greeting" -> 0
      [] Get(context, "stage", "greeting") = "small_talk" -> 1
      [] OTHER -> 2

\* C15: no turn, urgent, failed or normal, moves the stage of a session
\* backwards; only the turn that selects a time, which resets the session,
\* starts again at greeting.
C15_StageMonotone ==
    [][ \A phone \in Parties :
          ( TurnOf(phone) /\ last'.selected = <<>> )
          => StageRank(ContextOf(phone)') >= StageRank(ContextOf(phone)) ]_vars

\* A turn failed in stage booking after the extractor had run, and the stage
\* is still booking.
C15_Witness ==
    /\ last.op = "chat" /\ last.fault = "extracted"
    /\ Get(ContextOf(last.id), "stage", "greeting") = "booking"
    /\ Has(ContextOf(last.id), "date")

---------------------------------------------------------------------------
\* test_demo.py: the demo conversation, message after message, against a
\* database that other parties may have used before.

DemoPhone == "03001234567"

DemoMessages ==
    << "Hello", "I'm not feeling well", "Ahmed Khan", "35", "0300-1234567",
       "Fever and headache for 3 days", "Tomorrow", "2:30 PM" >>

\* An appointment of an earlier patient, as booked and as staff may have
\* set its status since.
DemoRows ==
    { [id |-> 1, patient_id |-> 1, date |-> d, time |-> t,
       reason |-> "Fever and headache", status |-> st, reminder_sent |-> <<>>] :
        d \in {0, 1}, t \in { <<10, 0>>, <<14, 30>>, <<15, 0>> },
        st \in {"pending", "confirmed", "cancelled"} }

RECURSIVE TablesOf(_, _)
TablesOf(rows, n) ==
    IF n = 0 THEN { <<>> }
    ELSE TablesOf(rows, n - 1) \cup
         { Append(t, [r EXCEPT !.id = Len(t) + 1]) :
             t \in { u \in TablesOf(rows, n - 1) : Len(u) = n - 1 }, r \in rows }

\* The tables the demo may find, with tomorrow 14:30 free.
DemoTables ==
    { t \in TablesOf(DemoRows, MaxAppts - 1) :
        \A i \in DOMAIN t :
            ~( Active(t[i]) /\ t[i].date = 1 /\ t[i].time = <<14, 30>> ) }

InitDemo ==
    /\ conversation_states = EmptyDict
    /\ appointments \in DemoTables
    /\ patients = IF appointments = <<>> THEN <<>>
                  ELSE << [id |-> 1, name |-> "Sara Ali",
                           phone |-> "03117654321", age |-> 28] >>
    /\ today = 0
    /\ last = NoLast
    /\ calls = [c \in Callers |-> NoCall]
    /\ writer = NoCaller
    /\ ext = NoExt
    /\ cal = NoCal
    /\ script = 0
    /\ parsed = NoParse
    /\ turns = NoTurns
    /\ reminders = NoReminders

\* lines 51-59: the next message of the list is processed
DemoStep ==
    /\ script < Len(DemoMessages)
    /\ chat_with_agent(DemoPhone, DemoMessages[script + 1], "none")
    /\ script' = script + 1
    /\ UNCHANGED <<today, calls, writer, ext, cal, parsed, turns,
                   reminders>>

NextDemo == DemoStep

SpecDemo == InitDemo /\ [][NextDemo]_vars

DemoExpected ==
    << "welcome_hello", "small_talk_neutral", "ask_age", "ask_phone",
       "ask_reason", "ask_date", "slots", "goodbye" >>

\* C13: the demo conversation is answered, in order, by the welcome, the
\* small-talk reply with the name request, the requests for age, phone,
\* reason and date, the slot list of tomorrow and the confirmation; then
\* exactly one active appointment exists at tomorrow 14:30, it is confirmed
\* and carries the reason given, and the context is empty.
C13_HappyPath ==
    script >= 1 =>
        /\ last.reply.kind = DemoExpected[script]
        /\ script = 7 =>
               /\ last.queried
               /\ last.reply.slots = get_available_slots(today + 1, appointments, today).slots
               /\ \E i \in DOMAIN last.reply.slots : last.reply.slots[i] = <<14, 30>>
        /\ script = 8 =>
               /\ last.reply.result = "confirmed"
               /\ { i \in DOMAIN appointments :
                        /\ Active(appointments[i])
                        /\ appointments[i].date = today + 1
                        /\ appointments[i].time = <<14, 30>> } = {last.booked}
               /\ appointments[last.booked].status = "confirmed"
               /\ appointments[last.booked].reason = DemoMessages[6]
               /\ ContextOf(DemoPhone) = EmptyDict

\* The demo has run to its end against a table that held a row before.
C13_Witness ==
    /\ script = Len(DemoMessages)
    /\ last.booked = Len(appointments)
    /\ Len(appointments) >= 2

---------------------------------------------------------------------------
\* The slot calendar on its own: get_available_slots is called for a date
\* against a table of appointments in any status staff can have set
\* (routes.py:99-125), on day 1.

SlotDates == {0, 1, 2}

SlotRows ==
    { [id |-> 1, patient_id |-> 1, date |-> d, time |-> t,
       reason |-> "Fever and headache", status |-> st, reminder_sent |-> <<>>] :
        d \in SlotDates, t \in { <<10, 0>>, <<14, 30>> },
        st \in {"pending", "confirmed", "completed", "cancelled"} }

\* Every slot of day 2 is held by a confirmed appointment.
FullDay ==
    [ i \in 1..Len(generate_time_slots) |->
        [id |-> i, patient_id |-> 1, date |-> 2, time |-> generate_time_slots[i],
         reason |-> "Fever and headache", status |-> "confirmed",
         reminder_sent |-> <<>>] ]

InitSlots ==
    /\ conversation_states = EmptyDict
    /\ appointments \in TablesOf(SlotRows, MaxRows) \cup {FullDay}
    /\ patients = IF appointments = <<>> THEN <<>>
                  ELSE << [id |-> 1, name |-> "Sara Ali",
                           phone |-> "03117654321", age |-> 28] >>
    /\ today = 1
    /\ last = NoLast
    /\ calls = [c \in Callers |-> NoCall]
    /\ writer = NoCaller
    /\ ext = NoExt
    /\ cal = NoCal
    /\ script = 0
    /\ parsed = NoParse
    /\ turns = NoTurns
    /\ reminders = NoReminders

SlotsCall(appointment_date) ==
    /\ cal.pc = "off"
    /\ cal' = [pc |-> "done", date |-> appointment_date,
               result |-> get_available_slots(appointment_date, appointments, today)]
    /\ UNCHANGED <<conversation_states, patients, appointments, today, last,
                 calls, writer, ext, script, parsed, turns,
                   reminders>>

SlotsReturn ==
    /\ cal.pc = "done"
    /\ cal' = NoCal
    /\ UNCHANGED <<conversation_states, patients, appointments, today, last,
                 calls, writer, ext, script, parsed, turns,
                   reminders>>

NextSlots ==
    \/ \E appointment_date \in SlotDates : SlotsCall(appointment_date)
    \/ SlotsReturn

SpecSlots == InitSlots /\ [][NextSlots]_vars

\* C18: for a date before today get_available_slots answers past_date,
\* which is neither the fully-booked answer nor a slot list, without
\* querying the appointment table; for no other date does it answer so.
C18_PastDateDistinct ==
    cal.pc = "done" =>
        /\ cal.date < today =>
               /\ cal.result.kind = "past_date"
               /\ cal.result.kind \notin {"no_slots", "slots"}
               /\ ~cal.result.read
        /\ cal.date >= today => cal.result.kind \in {"no_slots", "slots"}

\* The date asked for is past and the table holds an active appointment on it.
C18_Witness ==
    /\ cal.pc = "done" /\ cal.date < today
    /\ \E i \in DOMAIN appointments :
           appointments[i].date = cal.date /\ Active(appointments[i])

\* C19: for a date not past, a time of the grid is in the list returned
\* exactly if no pending, confirmed or completed appointment exists at that
\* date and time.
C19_NonCancelledFiltered ==
    ( cal.pc = "done" /\ cal.date >= today ) =>
        \A k \in DOMAIN generate_time_slots :
            ( \E i \in DOMAIN cal.result.slots :
                  cal.result.slots[i] = generate_time_slots[k] )
            <=> ~( \E j \in DOMAIN appointments :
                      /\ appointments[j].date = cal.date
                      /\ appointments[j].time = generate_time_slots[k]
                      /\ appointments[j].status \in
                             {"pending", "confirmed", "completed"} )

---------------------------------------------------------------------------
\* The extractor on its own: a context and an utterance are drawn, and
\* extract_patient_info is applied once and then once more.

WithOptional(d, k, opt) == IF opt = <<>> THEN d ELSE Put(d, k, opt[1])

\* Contexts the extractor can have produced by the day the model starts on.
ExtractContexts ==
    { WithOptional(WithOptional(WithOptional(WithOptional(WithOptional(
          EmptyDict, "name", n), "age", a), "phone", p), "reason", r), "date", d) :
        n \in {<<>>, <<"Ahmed Khan">>},
        a \in {<<>>, <<35>>},
        p \in {<<>>, <<"03001234567">>},
        r \in {<<>>, <<"Fever and headache">>},
        d \in {<<>>, <<0>>, <<1>>} }

InitExtract ==
    /\ conversation_states = EmptyDict
    /\ patients = <<>>
    /\ appointments = <<>>
    /\ today = 0
    /\ last = NoLast
    /\ calls = [c \in Callers |-> NoCall]
    /\ writer = NoCaller
    /\ cal = NoCal
    /\ script = 0
    /\ parsed = NoParse
    /\ turns = NoTurns
    /\ reminders = NoReminders
    /\ ext \in { [pc |-> "drawn", msg |-> message, before |-> context,
                  once |-> context, twice |-> context] :
                 message \in Utterances, context \in ExtractContexts }

ExtractOnce ==
    /\ ext.pc = "drawn"
    /\ ext' = [ext EXCEPT !.pc = "once",
                          !.once = extract_patient_info(ext.msg, ext.before, today)]
    /\ UNCHANGED <<conversation_states, patients, appointments, today, last,
                 calls, writer, cal, script, parsed, turns,
                   reminders>>

ExtractTwice ==
    /\ ext.pc = "once"
    /\ ext' = [ext EXCEPT !.pc = "twice",
                          !.twice = extract_patient_info(ext.msg, ext.once, today)]
    /\ UNCHANGED <<conversation_states, patients, appointments, today, last,
                 calls, writer, cal, script, parsed, turns,
                   reminders>>

NextExtract == ExtractOnce \/ ExtractTwice

SpecExtract == InitExtract /\ [][NextExtract]_vars

ExtractedFields == {"name", "age", "phone", "reason", "date"}

\* C9: extract_patient_info leaves every one of name, age, phone, reason and
\* date that is already in the context at its value.
C9_FirstWriteWins ==
    ext.pc \in {"once", "twice"}
    => \A f \in ExtractedFields \cap DOMAIN ext.before :
           ext.once[f] = ext.before[f]

\* C10: a field present in C has the same value after extracting U twice as
\* after extracting U once.
C10_ExtractIdempotent ==
    ext.pc = "twice"
    => \A f \in DOMAIN ext.before :
           /\ f \in DOMAIN ext.once /\ f \in DOMAIN ext.twice
           /\ ext.twice[f] = ext.once[f]

\* U named a day other than the one C held, and was extracted twice.
C10_Witness ==
    /\ ext.pc = "twice"
    /\ Has(ext.before, "date")
    /\ ext.once["date"] # ext.before["date"]
    /\ ext.twice["date"] = ext.once["date"]

---------------------------------------------------------------------------
\* book_appointment (tools.py:95-173), statement by statement, for callers
\* that run at the same time. Each caller has its own database session: it
\* reads the committed rows, keeps a flushed row to itself until commit, and
\* holds the database's write lock from its first flush to its commit or
\* close (db.py:20-27, SQLite).

Held(date, time) ==
    \E i \in DOMAIN appointments :
        /\ Active(appointments[i])
        /\ appointments[i].date = date
        /\ appointments[i].time = time

\* a session closing with a flushed row commits it instead of dropping it
ClosedCommits(rows, pending) == rows \o pending

\* line 167, db.close(): rows flushed and not committed are rolled back
Closed(rows, pending) == rows

Finished(call, outcome) ==
    [call EXCEPT !.pc = "done", !.outcome = outcome, !.pending = <<>>]

\* lines 111-125: the urgency check, the parsing, the patient query
BookCall(c, person, date, time, reason) ==
    /\ calls[c].pc = "idle"
    /\ LET call == [NoCall EXCEPT !.name = person.name, !.phone = person.phone,
                                  !.age = person.age, !.date = date,
                                  !.time = time, !.reason = reason]
           found == FindPatient(patients, person.phone)
       IN  calls' = [calls EXCEPT ![c] =
               IF is_urgent(reason) THEN Finished(call, "urgent")
               ELSE IF ~ValidTime(time) THEN Finished(call, "invalid_format")
               ELSE IF found # 0
                    THEN [call EXCEPT !.pc = "check", !.patient_id = found]
                    ELSE [call EXCEPT !.pc = "flush"]]
    /\ UNCHANGED <<conversation_states, patients, appointments, today, last,
                 writer, ext, cal, script, parsed, turns,
                   reminders>>

\* lines 127-131: db.add(patient); db.flush()
BookFlush(c) ==
    /\ calls[c].pc = "flush"
    /\ writer = NoCaller
    /\ IF FindPatient(patients, calls[c].phone) # 0
       THEN \* the phone was committed by another session meanwhile: the
            \* unique index of Patient.phone refuses the row (line 171)
            /\ calls' = [calls EXCEPT ![c] = Finished(calls[c], "error")]
            /\ patients' = Closed(patients, <<>>)
            /\ UNCHANGED writer
       ELSE /\ calls' = [calls EXCEPT ![c] =
                   [calls[c] EXCEPT !.pc = "check",
                                    !.patient_id = Len(patients) + 1,
                                    !.pending = << [id |-> Len(patients) + 1,
                                                    name |-> calls[c].name,
                                                    phone |-> calls[c].phone,
                                                    age |-> calls[c].age] >>]]
            /\ writer' = c
            /\ UNCHANGED patients
    /\ UNCHANGED <<conversation_states, appointments, today, last, ext, cal,
                 script, parsed, turns,
                   reminders>>

\* lines 133-141: the slot query, and the return when the slot is held
BookCheck(c) ==
    /\ calls[c].pc = "check"
    /\ IF Held(calls[c].date, calls[c].time)
       THEN /\ calls' = [calls EXCEPT ![c] = Finished(calls[c], "slot_taken")]
            /\ patients' = Closed(patients, calls[c].pending)
            /\ writer' = IF writer = c THEN NoCaller ELSE writer
       ELSE /\ calls' = [calls EXCEPT ![c].pc = "insert"]
            /\ UNCHANGED <<patients, writer>>
    /\ UNCHANGED <<conversation_states, appointments, today, last, ext, cal,
                 script, parsed, turns,
                   reminders>>

\* lines 143-152: db.add(appointment); db.commit()
BookInsert(c) ==
    /\ calls[c].pc = "insert"
    /\ writer \in {NoCaller, c}
    /\ Len(appointments) < MaxBookings
    /\ patients' = patients \o calls[c].pending
    /\ appointments' =
           Append(appointments,
                  NewAppointment(Len(appointments) + 1, calls[c].patient_id,
                                 calls[c].date, calls[c].time, calls[c].reason))
    /\ writer' = NoCaller
    /\ calls' = [calls EXCEPT ![c] = Finished(calls[c], "confirmed")]
    /\ UNCHANGED <<conversation_states, today, last, ext, cal, script, parsed,
                 turns,
                   reminders>>

\* the caller has its answer and may call again
BookReturn(c) ==
    /\ calls[c].pc = "done"
    /\ calls' = [calls EXCEPT ![c] = NoCall]
    /\ UNCHANGED <<conversation_states, patients, appointments, today, last,
                 writer, ext, cal, script, parsed, turns,
                   reminders>>

BookPeople ==
    { [name |-> "Ahmed Khan", phone |-> "03001234567", age |-> 35],
      [name |-> "Sara Ali", phone |-> "03117654321", age |-> 28] }

BookTimes == { <<14, 30>>, <<15, 0>>, <<25, 0>> }

BookReasons == { "Fever and headache", "chest pain" }

NextBook ==
    \E c \in Callers :
        \/ \E person \in BookPeople, time \in BookTimes, reason \in BookReasons :
               BookCall(c, person, 1, time, reason)
        \/ BookFlush(c)
        \/ BookCheck(c)
        \/ BookInsert(c)
        \/ BookReturn(c)

SpecBook == Init /\ [][NextBook]_vars

\* A pending or confirmed appointment of another party than phone holds (date, time).
HeldByOtherParty(date, time, phone) ==
    \E i \in DOMAIN appointments :
        /\ Active(appointments[i])
        /\ appointments[i].date = date
        /\ appointments[i].time = time
        /\ patients[appointments[i].patient_id].phone # phone

\* C2: of two calls for the same date and time by different parties, not
\* both end confirmed; and while a call is between its slot query and its
\* insert, no other party's commit takes the slot.
C2_AtomicCommit ==
    \A c, d \in Callers :
        /\ ( /\ c # d
             /\ calls[c].pc = "done" /\ calls[d].pc = "done"
             /\ calls[c].date = calls[d].date /\ calls[c].time = calls[d].time
             /\ calls[c].phone # calls[d].phone )
           => ~(calls[c].outcome = "confirmed" /\ calls[d].outcome = "confirmed")
        /\ calls[c].pc = "insert"
           => ~HeldByOtherParty(calls[c].date, calls[c].time, calls[c].phone)

\* The steps of caller c: the call itself, and the slot query.
CallStep(c) == calls[c].pc = "idle" /\ calls'[c].pc # "idle"

CheckStep(c) == calls[c].pc = "check" /\ calls'[c].pc # "check"

StorageUnchanged == patients' = patients /\ appointments' = appointments

\* What book_appointment does at its slot query when the slot is held, and
\* on the way there.
RefusedAtCheck(c) ==
    /\ ( CheckStep(c) /\ Held(calls[c].date, calls[c].time) )
       => ( /\ calls'[c].pc = "done"
            /\ calls'[c].outcome = "slot_taken"
            /\ StorageUnchanged )
    /\ ( calls'[c] # calls[c] /\ calls'[c].outcome # "confirmed" )
       => StorageUnchanged

\* C4 as claimed: a call for a date and time that hold a pending or
\* confirmed appointment gets the slot-taken answer and nothing is stored.
C4_HeldSlotRefused ==
    [][ \A c \in Callers :
          /\ ( CallStep(c) /\ Held(calls'[c].date, calls'[c].time)
               /\ calls'[c].pc = "done" )
             => calls'[c].outcome = "slot_taken"
          /\ RefusedAtCheck(c) ]_vars

\* C4, amended: the same for a call whose reason holds no urgency keyword.
C4_HeldSlotRefusedUnlessUrgent ==
    [][ \A c \in Callers :
          /\ ( CallStep(c) /\ Held(calls'[c].date, calls'[c].time)
               /\ ~is_urgent(calls'[c].reason) )
             => calls'[c].pc # "done"
          /\ RefusedAtCheck(c) ]_vars

\* A call by a phone never seen was refused, and no patient has that phone.
C4_Witness ==
    \E c \in Callers :
        /\ calls[c].pc = "done" /\ calls[c].outcome = "slot_taken"
        /\ calls[c].patient_id = Len(patients) + 1
        /\ FindPatient(patients, calls[c].phone) = 0
        /\ Held(calls[c].date, calls[c].time)

---------------------------------------------------------------------------
\* The ledger under both of its writers: a party who books in conversation
\* and callers of book_appointment, at the same time.

LedgerUtterances == {Introduction, "2:30 PM"}

NextLedger ==
    \/ \E message \in LedgerUtterances : Turn("p1", message)
    \/ \E c \in Callers :
           \/ \E person \in BookPeople :
                  BookCall(c, person, 1, <<14, 30>>, "Fever and headache")
           \/ BookFlush(c)
           \/ BookCheck(c)
           \/ BookInsert(c)
           \/ BookReturn(c)

SpecLedger == Init /\ [][NextLedger]_vars

UniquePhones ==
    \A i, j \in DOMAIN patients :
        patients[i].phone = patients[j].phone => i = j

\* The step commits an appointment for phone: the patient of that phone is
\* created if there was none and reused if there was one.
Upserted(phone) ==
    LET found == FindPatient(patients, phone)
        appointment == appointments'[Len(appointments')]
    IN  IF found = 0
        THEN /\ Len(patients') = Len(patients) + 1
             /\ patients' = Append(patients, patients'[Len(patients')])
             /\ patients'[Len(patients')].phone = phone
             /\ appointment.patient_id = Len(patients')
        ELSE /\ patients' = patients
             /\ appointment.patient_id = found

\* C24: a commit for a phone without a patient creates exactly one, a
\* commit for a phone with a patient reuses it, and no two patients ever
\* have the same phone, whatever commits ran and however they overlapped.
C24_PatientUpsert ==
    [][ /\ UniquePhones'
        /\ \A phone \in Parties :
              ( TurnOf(phone) /\ last'.booked # 0 )
              => Upserted(last'.notified[1].phone)
        /\ \A c \in Callers :
              ( calls[c].pc = "insert" /\ calls'[c].pc = "done" )
              => Upserted(calls[c].phone) ]_vars

\* A call that found no patient for its phone lost to a commit for the
\* same phone, and the patient of that phone was reused afterwards.
C24_Witness ==
    /\ \E c \in Callers :
           /\ calls[c].pc = "done" /\ calls[c].outcome = "error"
           /\ FindPatient(patients, calls[c].phone) # 0
    /\ Len(appointments) > Len(patients)

\* C28: an appointment, whether committed by the conversation or by
\* book_appointment, has status confirmed in the first state that shows it.
C28_CreatedConfirmed ==
    [][ \A i \in DOMAIN appointments' :
          i \notin DOMAIN appointments => appointments'[i].status = "confirmed" ]_vars

\* Both writers have committed an appointment.
C28_Witness ==
    /\ last.op = "chat" /\ last.booked # 0
    /\ \E c \in Callers : calls[c].pc = "done" /\ calls[c].outcome = "confirmed"
    /\ Len(appointments) >= 2

---------------------------------------------------------------------------
\* Staff at the dashboard: PUT /api/appointments/{id} (routes.py:99-125),
\* while a party books in conversation.

\* AppointmentUpdate.status is any str (routes.py:39-40); "no_show" stands
\* for the strings that the comment of models.py:41 does not name.
StaffStatuses == {"pending", "confirmed", "completed", "cancelled", "no_show"}

\* routes.py:99-118; an id without appointment is answered 404
update_appointment(appointment_id, status) ==
    /\ appointment_id \in DOMAIN appointments
    /\ writer = NoCaller
    /\ appointments' = [appointments EXCEPT ![appointment_id].status = status]
    /\ UNCHANGED <<conversation_states, patients, today, last, calls, writer, ext,
                   cal, script, parsed, turns,
                   reminders>>

NextStaff ==
    \/ \E message \in LedgerUtterances : Turn("p1", message)
    \/ \E appointment_id \in 1..MaxAppts, status \in StaffStatuses :
           update_appointment(appointment_id, status)

SpecStaff == Init /\ [][NextStaff]_vars

\* C27: the status of every appointment is one of pending, confirmed,
\* completed and cancelled, whatever updates staff have made.
C27_StatusEnum ==
    \A i \in DOMAIN appointments :
        appointments[i].status \in {"pending", "confirmed", "completed", "cancelled"}

---------------------------------------------------------------------------
\* The slot grid on its own: generate_time_slots for the opening hour,
\* closing hour and slot duration that the environment sets (tools.py:20-22).

GridHours == 8..12

GridDurations == {10, 15, 20, 30, 45, 60, 90}

InitGrid ==
    /\ conversation_states = EmptyDict
    /\ patients = <<>>
    /\ appointments = <<>>
    /\ today = 0
    /\ last = NoLast
    /\ calls = [c \in Callers |-> NoCall]
    /\ writer = NoCaller
    /\ ext = NoExt
    /\ \E start_hour \in GridHours, end_hour \in GridHours, duration \in GridDurations :
          /\ start_hour < end_hour
          /\ cal = [pc |-> "configured", start |-> start_hour, end |-> end_hour,
                    duration |-> duration, slots |-> <<>>]
    /\ script = 0
    /\ parsed = NoParse
    /\ turns = NoTurns
    /\ reminders = NoReminders

\* tools.py:25-40 under the configuration drawn
GenerateSlots ==
    /\ cal.pc = "configured"
    /\ cal' = [cal EXCEPT !.pc = "generated",
                          !.slots = SlotsOf(cal.start, 0, cal.end, cal.duration)]
    /\ UNCHANGED <<conversation_states, patients, appointments, today, last, calls,
                   writer, ext, script, parsed, turns,
                   reminders>>

NextGrid == GenerateSlots

SpecGrid == InitGrid /\ [][NextGrid]_vars

MinuteOfDay(slot) == slot[1] * 60 + slot[2]

---------------------------------------------------------------------------
\* The time conversion on its own: the groups of a match of the first time
\* pattern (hour, minute or -1 when absent, meridiem or "" when absent) are
\* turned into the time string.

ParsedHours == 0..24

ParsedMinutes == {-1, 0, 5, 30}

InitTime ==
    /\ conversation_states = EmptyDict
    /\ patients = <<>>
    /\ appointments = <<>>
    /\ today = 0
    /\ last = NoLast
    /\ calls = [c \in Callers |-> NoCall]
    /\ writer = NoCaller
    /\ ext = NoExt
    /\ cal = NoCal
    /\ script = 0
    /\ parsed \in { [pc |-> "matched", match |-> <<hour, minute, meridiem>>,
                      time_str |-> <<>>] :
                     hour \in ParsedHours, minute \in ParsedMinutes,
                     meridiem \in {"", "am", "pm"} }
    /\ turns = NoTurns
    /\ reminders = NoReminders

\* clinic_agent.py:225-236
ConvertTime ==
    /\ parsed.pc = "matched"
    /\ parsed' = [parsed EXCEPT !.pc = "converted",
                                !.time_str = TimeStr(parsed.match)]
    /\ UNCHANGED <<conversation_states, patients, appointments, today, last, calls,
                   writer, ext, cal, script, turns,
                   reminders>>

NextTime == ConvertTime

SpecTime == InitTime /\ [][NextTime]_vars

\* C30: with PM an hour below 12 gains 12 and hour 12 stays; with AM hour
\* 12 becomes 0 and any other hour stays; without meridiem the hour stays;
\* the minute is the one matched, or 0 when none was; the time stored is
\* that hour and minute.
C30_TimeNormalised ==
    parsed.pc = "converted" =>
        LET hour == parsed.match[1]
            minute == parsed.match[2]
            meridiem == parsed.match[3]
        IN  /\ ( meridiem = "pm" /\ hour < 12 ) => parsed.time_str[1] = hour + 12
            /\ ( meridiem = "pm" /\ hour = 12 ) => parsed.time_str[1] = 12
            /\ ( meridiem = "am" /\ hour = 12 ) => parsed.time_str[1] = 0
            /\ ( meridiem = "am" /\ hour # 12 ) => parsed.time_str[1] = hour
            /\ meridiem = "" => parsed.time_str[1] = hour
            /\ minute = -1 => parsed.time_str[2] = 0
            /\ minute # -1 => parsed.time_str[2] = minute
            /\ Len(parsed.time_str) = 2

\* "12 PM" and "12 AM" were converted.
C30_Witness ==
    /\ parsed.pc = "converted"
    /\ parsed.match[1] = 12 /\ parsed.match[2] = -1
    /\ parsed.match[3] \in {"am", "pm"}

---------------------------------------------------------------------------
\* What the dialogue commits, turn by turn (one party, the demo vocabulary).

OnGrid(time) == \E i \in DOMAIN generate_time_slots : generate_time_slots[i] = time

\* C31: the time of an appointment committed by a turn was in the slot list
\* of the cycle: it is on the slot grid and no pending or confirmed
\* appointment held it on that date (the table does not change between the
\* slot list and the selection when one party talks).
C31_BookedTimeWasOffered ==
    [][ \A phone \in Parties :
          ( TurnOf(phone) /\ last'.booked # 0 ) =>
            /\ OnGrid(appointments'[last'.booked].time)
            /\ ~HeldByAnother(appointments'[last'.booked].date,
                              appointments'[last'.booked].time, 0) ]_vars

\* C32: a slot-selection turn whose commit failed, because the insert was
\* refused or the time could not be converted, calls send_doctor_notification
\* for nobody.
C32_NoNotificationWithoutCommit ==
    ( /\ last.op = "chat"
      /\ last.selected # <<>>
      /\ last.fault = "commit" \/ ~ValidTime(last.selected[1].time) )
    => ( /\ last.booked = 0
         /\ last.notified = <<>> )

\* C33: the turn that commits an appointment starts with name, age, phone,
\* reason and date in the context; the appointment carries that reason and
\* its patient that phone, and none of 'Unknown', 0, 'General consultation'
\* and the session identifier is stored in their place.
C33_NoFallbackStored ==
    [][ \A phone \in Parties :
          ( TurnOf(phone) /\ last'.booked # 0 ) =>
            LET context == ContextOf(phone)
                appointment == appointments'[last'.booked]
                patient == patients'[appointment.patient_id]
            IN  /\ \A f \in {"name", "age", "phone", "reason", "date"} : Has(context, f)
                /\ appointment.reason = context["reason"]
                /\ appointment.reason # "General consultation"
                /\ patient.phone = context["phone"]
                /\ patient.phone # phone
                /\ patient.name # "Unknown"
                /\ patient.age # 0
                /\ Len(patients') > Len(patients) =>
                       /\ patient.name = context["name"]
                       /\ patient.age = context["age"] ]_vars

\* The demo's patient was created with the appointment.
C33_Witness ==
    /\ last.op = "chat" /\ last.booked # 0
    /\ appointments[last.booked].reason = "Fever and headache for 3 days"
    /\ patients[appointments[last.booked].patient_id].name = "Ahmed Khan"
    /\ patients[appointments[last.booked].patient_id].age = 35

---------------------------------------------------------------------------
\* The conversation across midnight: the sessions stay in memory (line 19)
\* while datetime.now() and date.today() move on.

MaxDay == 2

ClockUtterances == {Introduction, "today", "2:30 PM"}

\* the calendar day changes between two turns
Tick ==
    /\ today < MaxDay
    /\ today' = today + 1
    /\ UNCHANGED <<conversation_states, patients, appointments, last, calls, writer,
                   ext, cal, script, parsed, turns,
                   reminders>>

NextClock ==
    \/ \E message \in ClockUtterances : Turn("p1", message)
    \/ Tick

SpecClock == Init /\ [][NextClock]_vars

\* C34: a turn sets shown_slots only when it presents a non-empty list of
\* available slots; the calendar's answer for a past date or a full day
\* leaves shown_slots unset.
C34_ShownOnlyWithSlots ==
    [][ \A phone \in Parties :
          ( /\ TurnOf(phone) /\ today' = today
            /\ ~Get(ContextOf(phone), "shown_slots", FALSE)
            /\ Get(ContextOf(phone)', "shown_slots", FALSE) )
          => ( /\ last'.reply.kind = "slots"
               /\ last'.reply.slots # <<>> ) ]_vars

\* C35: the date of an appointment committed by a turn is not before the
\* day on which the turn runs.
C35_NoPastDateCommitted ==
    [][ \A phone \in Parties :
          ( TurnOf(phone) /\ today' = today /\ last'.booked # 0 )
          => appointments'[last'.booked].date >= today ]_vars

---------------------------------------------------------------------------
\* The front desk: a caller books through book_appointment, which declines
\* a slot that is held (tools.py:133-141), while staff set the status of
\* appointments (routes.py:99-118).

NextDesk ==
    \/ \E person \in BookPeople :
           BookCall("c1", person, 1, <<14, 30>>, "Fever and headache")
    \/ BookFlush("c1")
    \/ BookCheck("c1")
    \/ BookInsert("c1")
    \/ BookReturn("c1")
    \/ \E appointment_id \in 1..MaxBookings, status \in StaffStatuses :
           update_appointment(appointment_id, status)

SpecDesk == Init /\ [][NextDesk]_vars

\* No two pending or confirmed rows have the same date and time.
SlotsSingle(rows) ==
    \A i, j \in DOMAIN rows :
        ( /\ i < j
          /\ rows[i].status \in ActiveStatuses /\ rows[j].status \in ActiveStatuses
          /\ rows[i].date = rows[j].date )
        => rows[i].time # rows[j].time

\* C36: a status update by staff on a table in which every slot has at
\* most one active appointment leaves such a table, also when it sets a
\* cancelled appointment back to pending or confirmed after the slot was
\* booked again.
C36_StaffUpdateKeepsSlotsSingle ==
    [][ ( /\ Len(appointments') = Len(appointments)
          /\ appointments' # appointments
          /\ SlotsSingle(appointments) )
        => SlotsSingle(appointments') ]_vars

---------------------------------------------------------------------------
\* The names of the demo conversation (test_demo.py:30-39).

\* C37: in the demo conversation no name is recorded from the greeting and
\* the small-talk answer, and the patient of the committed appointment and
\* the staff notification carry the name given to the name prompt,
\* 'Ahmed Khan'.
C37_NameFromNamePrompt ==
    /\ ( 1 <= script /\ script <= 2 ) => ~Has(ContextOf(DemoPhone), "name")
    /\ script = Len(DemoMessages) =>
           /\ last.notified[1].name = DemoMessages[3]
           /\ patients[appointments[last.booked].patient_id].name = DemoMessages[3]

---------------------------------------------------------------------------
\* Urgent utterances and the reason of a visit.

\* C38: the reason in a context is never an urgent utterance, and no
\* appointment committed by the dialogue carries an urgent reason.
C38_NoUrgentReason ==
    /\ \A phone \in Parties :
           Has(ContextOf(phone), "reason") => ~is_urgent(ContextOf(phone)["reason"])
    /\ \A i \in DOMAIN appointments : ~is_urgent(appointments[i].reason)

\* An urgent utterance that names a symptom arrived while the reason was
\* still to be given, after an appointment had been committed before.
C38_Witness ==
    /\ last.op = "chat" /\ last.urgent
    /\ HasSymptom(last.msg)
    /\ StageOf(last.id) = "booking"
    /\ Has(ContextOf(last.id), "phone")
    /\ ~Has(ContextOf(last.id), "reason")
    /\ Len(appointments) >= 1

---------------------------------------------------------------------------
\* The reminder loop (main.py:41-95) beside a party who books, staff who set
\* statuses and the calendar day moving on. One round, from the query to the
\* end of the for loop, runs without an await, so nothing interleaves with it.

MaxReminders == 3

\* what db.commit() of line 80 does for an appointment: succeed, or raise
ReminderFaults == {"none", "commit"}

\* lines 55-59: tomorrow's pending or confirmed appointments without reminder
DueForReminder(rows, now) ==
    SelectSeq([i \in 1..Len(rows) |-> i],
              LAMBDA i : /\ rows[i].date = now + 1
                         /\ rows[i].status \in ActiveStatuses
                         /\ rows[i].reminder_sent = <<>>)

\* lines 66-86: for each appointment the reminder is sent, reminder_sent is
\* set and committed; a commit that raises is rolled back (line 86) and the
\* loop goes on
RECURSIVE RemindEach(_, _, _, _)
RemindEach(due, rows, log, faults) ==
    IF due = <<>> THEN [rows |-> rows, log |-> log]
    ELSE LET id == Head(due)
             sent == Append(log, [id |-> id, status |-> rows[id].status])
             marked == IF faults[id] = "commit" THEN rows
                       ELSE [rows EXCEPT ![id].reminder_sent = <<today>>]
         IN  RemindEach(Tail(due), marked, sent, faults)

\* lines 49-95: one round of the while loop
ReminderRound ==
    /\ reminders.pc = "running"
    /\ writer = NoCaller
    /\ \E faults \in [DOMAIN appointments -> ReminderFaults] :
          LET r == RemindEach(DueForReminder(appointments, today), appointments,
                              reminders.log, faults)
          IN  /\ Len(r.log) <= MaxReminders
              /\ appointments' = r.rows
              /\ reminders' = [reminders EXCEPT !.log = r.log]
    /\ UNCHANGED <<conversation_states, patients, today, last, calls, writer, ext,
                   cal, script, parsed, turns>>

\* main.py:110, the loop is started with the application
InitReminder ==
    /\ conversation_states = EmptyDict
    /\ patients = <<>>
    /\ appointments = <<>>
    /\ today = 0
    /\ last = NoLast
    /\ calls = [c \in Callers |-> NoCall]
    /\ writer = NoCaller
    /\ ext = NoExt
    /\ cal = NoCal
    /\ script = 0
    /\ parsed = NoParse
    /\ turns = NoTurns
    /\ reminders = [pc |-> "running", log |-> <<>>]

NextReminder ==
    \/ ReminderRound
    \/ \E message \in LedgerUtterances : Turn("p1", message)
    \/ \E appointment_id \in 1..MaxAppts, status \in {"confirmed", "cancelled"} :
           update_appointment(appointment_id, status)
    \/ Tick

SpecReminder == InitReminder /\ [][NextReminder]_vars

\* C39: over all rounds no appointment is sent two reminders, and every
\* reminder went to an appointment that was pending or confirmed.
C39_ReminderAtMostOnce ==
    reminders.pc = "running" =>
        /\ \A j, k \in DOMAIN reminders.log :
               j # k => reminders.log[j].id # reminders.log[k].id
        /\ \A k \in DOMAIN reminders.log : reminders.log[k].status \in ActiveStatuses

============================================================================
